---- MODULE Spec2Model ----
(***************************************************************************)
(* The Intro-to-Machine-Learning notebook as a state machine.              *)
(*                                                                         *)
(* The state is the kernel's global namespace (df, X, y, train_size, seed, *)
(* X_train, X_test, y_train, y_test, clf, y_pred, results, accuracy,       *)
(* classifiers, clf_name), the saved outputs of the printing cells, the    *)
(* kernel's execution counter and the position of the next cell to run.    *)
(* One action per code cell, the comparison loop of the last cell taken    *)
(* one statement group at a time.  A cell that raises stops at the         *)
(* statement that raised and keeps the bindings made before it; the        *)
(* reader then runs the next cell, as in a cell-by-cell reading of the     *)
(* tutorial.                                                               *)
(*                                                                         *)
(* The notebook calls scikit-learn and pandas; of those calls the model    *)
(* keeps what the notebook can observe.  The library is the one the saved  *)
(* outputs come from: sklearn.model_selection exists (0.18 or later), the  *)
(* split cell saved no FutureWarning (0.19 and 0.20 print one for          *)
(* train_size without test_size) and floats print with 12 digits           *)
(* (numpy before 1.14), hence scikit-learn 0.18.                           *)
(*                                                                         *)
(* Three things are inputs of the notebook that its source does not fix    *)
(* and are drawn in Init: the number of rows of the CSV file, the shuffle  *)
(* the seeded generator produces, and the decision rule each estimator     *)
(* learns.  The generator and the estimators are deterministic functions   *)
(* of their arguments; which functions they are is the environment's.      *)
(***************************************************************************)
EXTENDS Integers, Sequences, FiniteSets, TLC

VARIABLES
  csvRows,          \* rows of the CSV file read by pd.read_csv
  rngCode,          \* the shuffle the seeded generator produces
  learnerRule,      \* the decision rule each estimator class learns
  df, X, y,
  train_size, seed,
  X_train, X_test, y_train, y_test,
  clf, y_pred, results, accuracy,
  classifiers, clf_name,
  out30, out31, out32,   \* saved stdout of cells In[30], In[31], In[32]
  raised,           \* exception raised by the last executed cell, or "none"
  execution_count,  \* the kernel's In[n] counter
  pc,               \* the next cell (or loop statement) to run
  loopPos,          \* position of the comparison loop in classifiers.items()
  splitArgs,        \* the arguments of the call that returned the current split
  lastRun           \* the previous pass over the cells, kept for comparison

vars == << csvRows, rngCode, learnerRule, df, X, y, train_size, seed,
           X_train, X_test, y_train, y_test, clf, y_pred, results, accuracy,
           classifiers, clf_name, out30, out31, out32, raised,
           execution_count, pc, loopPos, splitArgs, lastRun >>

----------------------------------------------------------------------------
(* Bounds of the model *)

MaxRows == 3          \* small CSV files have 0..MaxRows rows
MaxShift == 1         \* rotations the generator's shuffle is drawn from
MaxExecutions == 11   \* cells run before the reader stops going back to the split

(* Program constants *)

IrisRows == 150       \* df.iloc[0:150, ...]
NumClasses == 3       \* Iris-setosa, Iris-versicolor, Iris-virginica
TrainSizeTenths == 8  \* train_size = 0.8
NotebookSeed == 7     \* seed = 7

----------------------------------------------------------------------------
(* Python values *)

None == << >>
Some(v) == << v >>
IsBound(g) == g # None
Val(g) == g[1]

Min(a, b) == IF a < b THEN a ELSE b
Max(a, b) == IF a < b THEN b ELSE a

Raise(e) == [ok |-> FALSE, exc |-> e, val |-> None]
Return(v) == [ok |-> TRUE, exc |-> "none", val |-> Some(v)]

\* Python's s[a:b] for 0 <= a on a sequence (positions are 0-based).
Slice(s, a, b) ==
  LET lo == Min(a, Len(s))
      hi == Min(Max(b, lo), Len(s))
  IN  SubSeq(s, lo + 1, hi)

\* s.iloc[ind] / safe_indexing: the rows of s at the 0-based positions ind.
Take(s, ind) == [p \in 1..Len(ind) |-> s[ind[p] + 1]]

----------------------------------------------------------------------------
(* The dataset *)

ClassNames == << "Iris-setosa", "Iris-versicolor", "Iris-virginica" >>

\* The file holds the classes in equal contiguous blocks (50/50/50 for Iris).
Species(i, n) == ClassNames[((i * NumClasses) \div n) + 1]

\* The four measurements of row i, kept as one value that identifies the row.
Measurements(i) == i

\* pd.read_csv(filename, header=0): one row per data line, index 0..n-1.
ReadCsv(n) ==
  [p \in 1..n |-> [idx |-> p - 1, feat |-> Measurements(p - 1),
                   label |-> Species(p - 1, n)]]

\* df.iloc[0:150, 0:4]
IlocFeatures(d) ==
  LET rows == Slice(d, 0, IrisRows)
  IN  [p \in 1..Len(rows) |-> [idx |-> rows[p].idx, feat |-> rows[p].feat]]

\* df.iloc[0:150, 4]
IlocLabels(d) ==
  LET rows == Slice(d, 0, IrisRows)
  IN  [p \in 1..Len(rows) |-> [idx |-> rows[p].idx, label |-> rows[p].label]]

\* Small files, the 150-row Iris file, and a file one row longer.
DatasetSizes == (0..MaxRows) \cup {IrisRows, IrisRows + 1}

----------------------------------------------------------------------------
(* train_test_split (sklearn.model_selection, called in cell In[27]) *)

\* The test rows the saved output of In[29] lists for the 150-row file,
\* train_size 0.8 and seed 7, in the order printed.
RecordedTestIndex ==
  << 149, 84, 40, 66, 106, 41, 52, 94, 11, 51, 77, 85, 32, 109, 28,
     70, 108, 137, 46, 37, 82, 120, 63, 119, 129, 138, 97, 80, 101, 140 >>

RECURSIVE Ascending(_, _, _)
\* The values lo..hi that are not in skip, in ascending order.
Ascending(lo, hi, skip) ==
  IF lo > hi THEN << >>
  ELSE IF lo \in skip THEN Ascending(lo + 1, hi, skip)
       ELSE << lo >> \o Ascending(lo + 1, hi, skip)

\* The permutation behind the saved output: the listed test rows first (the
\* split takes its test rows from the front); the order of the training rows
\* was not printed and is taken ascending.
RecordedPermutation ==
  RecordedTestIndex \o
  Ascending(0, IrisRows - 1, {RecordedTestIndex[p] : p \in 1..Len(RecordedTestIndex)})

ShuffleCodes == [shift : 0..MaxShift, flip : BOOLEAN]

\* A permutation of 0..n-1 keyed by the seed: a rotation, possibly mirrored.
Shuffle(code, sd, n) ==
  [p \in 1..n |->
     LET r == (p - 1 + code.shift + sd) % n
     IN  IF code.flip THEN n - 1 - r ELSE r]

\* Mutant of Permutation: the generator is not reseeded, so the shuffle
\* depends on how many cells the kernel has run.
PermutationUnseeded(sd, n) ==
  Shuffle([shift |-> execution_count, flip |-> rngCode.flip], sd, n)

\* check_random_state(seed).permutation(n_samples)
Permutation(sd, n) ==
  IF n = IrisRows /\ sd = NotebookSeed THEN RecordedPermutation
  ELSE Shuffle(rngCode, sd, n)

\* Mutant of NTrain: round(train_size * n_samples) instead of floor.
NTrainRounded(tenths, n) == (tenths * n + 5) \div 10

\* floor(train_size * n_samples), train_size = tenths / 10
NTrain(tenths, n) == (tenths * n) \div 10

\* test_size is None: n_test = n_samples - n_train
NTest(tenths, n) == n - NTrain(tenths, n)

\* _validate_shuffle_split_init and _validate_shuffle_split: the only float
\* train_size refused is one >= 1.0
SplitRefuses(tenths, n) ==
  \/ tenths >= 10
  \/ NTrain(tenths, n) + NTest(tenths, n) > n

\* Mutant of IndTest: the slice starts one position late.
IndTestOffByOne(perm, tenths, n) == Slice(perm, 1, NTest(tenths, n))

\* ind_test = permutation[:n_test]
IndTest(perm, tenths, n) == Slice(perm, 0, NTest(tenths, n))

\* Mutant of IndTrain: the training rows are taken from the front too.
IndTrainFromFront(perm, tenths, n) == Slice(perm, 0, NTrain(tenths, n))

\* ind_train = permutation[n_test:(n_test + n_train)]
IndTrain(perm, tenths, n) ==
  Slice(perm, NTest(tenths, n), NTest(tenths, n) + NTrain(tenths, n))

\* Mutant of TrainTestSplit: y is shuffled with another seed than X.
TrainTestSplitUnaligned(Xa, ya, tenths, sd) ==
  IF Len(Xa) # Len(ya) THEN Raise("ValueError")
  ELSE IF SplitRefuses(tenths, Len(Xa)) THEN Raise("ValueError")
  ELSE LET n == Len(Xa)
           perm == Permutation(sd, n)
           other == Shuffle(rngCode, sd + 1, n)
       IN  Return([X_train |-> Take(Xa, IndTrain(perm, tenths, n)),
                   X_test |-> Take(Xa, IndTest(perm, tenths, n)),
                   y_train |-> Take(ya, IndTrain(other, tenths, n)),
                   y_test |-> Take(ya, IndTest(other, tenths, n))])

\* train_test_split(X, y, train_size=tenths/10, random_state=sd)
TrainTestSplit(Xa, ya, tenths, sd) ==
  IF Len(Xa) # Len(ya) THEN Raise("ValueError")
  ELSE IF SplitRefuses(tenths, Len(Xa)) THEN Raise("ValueError")
  ELSE LET n == Len(Xa)
           perm == Permutation(sd, n)
           tr == IndTrain(perm, tenths, n)
           te == IndTest(perm, tenths, n)
       IN  Return([X_train |-> Take(Xa, tr), X_test |-> Take(Xa, te),
                   y_train |-> Take(ya, tr), y_test |-> Take(ya, te)])

Fractions == {0, 2, TrainSizeTenths, 10}
Seeds == {NotebookSeed, NotebookSeed + 1}

----------------------------------------------------------------------------
(* Estimators (GaussianNB, DecisionTreeClassifier, SVC) *)

Algos == {"GaussianNB", "DecisionTreeClassifier", "SVC"}
Rules == {"first", "lookup"}

\* GaussianNB(), DecisionTreeClassifier(random_state=seed), SVC(): a fresh,
\* unfitted estimator.  params are the attributes fit sets (None before fit);
\* calls lists the methods invoked on the object.
NewEstimator(algo) == [algo |-> algo, params |-> None, calls |-> << >>]

IsFitted(est) == IsBound(est.params)

LabelsOf(ys) == {ys[p].label : p \in 1..Len(ys)}

\* What fit(X, y) refuses: no sample, X and y of different lengths, and for
\* SVC a y with a single class.
FitRefuses(est, Xt, yt) ==
  \/ Len(Xt) = 0
  \/ Len(Xt) # Len(yt)
  \/ est.algo = "SVC" /\ Cardinality(LabelsOf(yt)) < 2

\* Mutant of Learn: the estimator learns from the whole of X and y.
LearnFromAll(algo, Xt, yt) ==
  [rule |-> learnerRule[algo], X |-> Val(X), y |-> Val(y)]

\* The attributes fit(X, y) sets: the decision rule of the estimator's class,
\* learned from the arrays it is given, X and y paired by position.
Learn(algo, Xt, yt) == [rule |-> learnerRule[algo], X |-> Xt, y |-> yt]

\* est.fit(X, y): the estimator after the call and the exception raised.
Fit(est, Xt, yt) ==
  LET called == [est EXCEPT !.calls = Append(@, "fit")]
  IN  IF FitRefuses(est, Xt, yt)
      THEN [ok |-> FALSE, exc |-> "ValueError", est |-> called]
      ELSE [ok |-> TRUE, exc |-> "none",
            est |-> [called EXCEPT !.params = Some(Learn(est.algo, Xt, yt))]]

\* The label the fitted attributes give one sample: that of the first
\* training sample, or that of the training sample the measurements select.
PredictOne(par, x) ==
  IF par.rule = "first" THEN par.y[1].label
  ELSE par.y[(x.feat % Len(par.X)) + 1].label

\* Mutant of Predict: no check that the estimator is fitted.
PredictUnchecked(est, Xs) ==
  IF Len(Xs) = 0 THEN Raise("ValueError")
  ELSE IF ~IsBound(est.params) THEN Return([p \in 1..Len(Xs) |-> ClassNames[1]])
  ELSE Return([p \in 1..Len(Xs) |-> PredictOne(Val(est.params), Xs[p])])

\* est.predict(X): NotFittedError before fit, ValueError on an empty X,
\* else one label per row of X, in the order of X (a plain array, no index).
Predict(est, Xs) ==
  IF ~IsFitted(est) THEN Raise("NotFittedError")
  ELSE IF Len(Xs) = 0 THEN Raise("ValueError")
  ELSE Return([p \in 1..Len(Xs) |-> PredictOne(Val(est.params), Xs[p])])

\* Mutant of AccuracyScore: the positions that differ are counted.
AccuracyScoreOfErrors(ytrue, ypred) ==
  IF Len(ytrue) # Len(ypred) THEN Raise("ValueError")
  ELSE Return(<< Cardinality({p \in 1..Len(ytrue) : ypred[p] # ytrue[p].label}),
                 Len(ytrue) >>)

\* accuracy_score(y_true, y_pred): the fraction, kept as <<hits, samples>>,
\* of positions where the two labels are equal; <<0, 0>> is nan.
AccuracyScore(ytrue, ypred) ==
  IF Len(ytrue) # Len(ypred) THEN Raise("ValueError")
  ELSE Return(<< Cardinality({p \in 1..Len(ytrue) : ypred[p] = ytrue[p].label}),
                 Len(ytrue) >>)

\* ClassifierMixin.score(X, y) = accuracy_score(y, self.predict(X))
Score(est, Xs, ys) ==
  LET pred == Predict(est, Xs)
  IN  IF ~pred.ok THEN pred ELSE AccuracyScore(ys, Val(pred.val))

\* Mutant of Called: a query clears the fitted attributes.
CalledForgets(est, method) ==
  [est EXCEPT !.calls = Append(@, method), !.params = None]

\* The estimator after a predict or score call.
Called(est, method) == [est EXCEPT !.calls = Append(@, method)]

----------------------------------------------------------------------------
(* The cells *)

Index(s) == [p \in 1..Len(s) |-> s[p].idx]

\* The cell ran: the kernel counts it and the reader moves to the next one.
Ran(exc, next) ==
  /\ raised' = exc
  /\ execution_count' = execution_count + 1
  /\ pc' = next

\* df = pd.read_csv(filename, header=0)
ReadCsvCell ==
  /\ pc = "read_csv"
  /\ df' = Some(ReadCsv(csvRows))
  /\ Ran("none", "extract")
  /\ UNCHANGED << csvRows, rngCode, learnerRule, X, y, train_size, seed,
                  X_train, X_test, y_train, y_test, splitArgs, clf, y_pred,
                  results, accuracy, classifiers, clf_name, out30, out31,
                  out32, loopPos, lastRun >>

\* In[24]: X = df.iloc[0:150, 0:4]; y = df.iloc[0:150, 4]
ExtractCell ==
  /\ pc = "extract"
  /\ IF IsBound(df)
     THEN /\ X' = Some(IlocFeatures(Val(df)))
          /\ y' = Some(IlocLabels(Val(df)))
          /\ Ran("none", "slice_x")
     ELSE /\ UNCHANGED << X, y >>
          /\ Ran("NameError", "slice_x")
  /\ UNCHANGED << csvRows, rngCode, learnerRule, df, train_size, seed,
                  X_train, X_test, y_train, y_test, splitArgs, clf, y_pred,
                  results, accuracy, classifiers, clf_name, out30, out31,
                  out32, loopPos, lastRun >>

\* In[25]: X = df.iloc[0:150, 0:4]
SliceXCell ==
  /\ pc = "slice_x"
  /\ IF IsBound(df)
     THEN X' = Some(IlocFeatures(Val(df))) /\ Ran("none", "slice_y")
     ELSE UNCHANGED X /\ Ran("NameError", "slice_y")
  /\ UNCHANGED << csvRows, rngCode, learnerRule, df, y, train_size, seed,
                  X_train, X_test, y_train, y_test, splitArgs, clf, y_pred,
                  results, accuracy, classifiers, clf_name, out30, out31,
                  out32, loopPos, lastRun >>

\* In[26]: y = df.iloc[0:150, 4]
SliceYCell ==
  /\ pc = "slice_y"
  /\ IF IsBound(df)
     THEN y' = Some(IlocLabels(Val(df))) /\ Ran("none", "split")
     ELSE UNCHANGED y /\ Ran("NameError", "split")
  /\ UNCHANGED << csvRows, rngCode, learnerRule, df, X, train_size, seed,
                  X_train, X_test, y_train, y_test, splitArgs, clf, y_pred,
                  results, accuracy, classifiers, clf_name, out30, out31,
                  out32, loopPos, lastRun >>

\* In[27]: train_size = t/10; seed = s;
\* X_train, X_test, y_train, y_test = train_test_split(X, y, ...)
SplitCell(t, s) ==
  /\ pc = "split"
  /\ train_size' = Some(t)
  /\ seed' = Some(s)
  /\ IF ~IsBound(X) \/ ~IsBound(y)
     THEN /\ UNCHANGED << X_train, X_test, y_train, y_test, splitArgs >>
          /\ Ran("NameError", "gnb")
     ELSE LET r == TrainTestSplit(Val(X), Val(y), t, s)
          IN  IF r.ok
              THEN /\ X_train' = Some(Val(r.val).X_train)
                   /\ X_test' = Some(Val(r.val).X_test)
                   /\ y_train' = Some(Val(r.val).y_train)
                   /\ y_test' = Some(Val(r.val).y_test)
                   /\ splitArgs' = Some([rows |-> Len(Val(X)), tenths |-> t,
                                         seed |-> s])
                   /\ Ran("none", "gnb")
              ELSE /\ UNCHANGED << X_train, X_test, y_train, y_test, splitArgs >>
                   /\ Ran(r.exc, "gnb")
  /\ UNCHANGED << csvRows, rngCode, learnerRule, df, X, y, clf, y_pred,
                  results, accuracy, classifiers, clf_name, out30, out31,
                  out32, loopPos, lastRun >>

\* In[28]: clf = GaussianNB(); clf.fit(X_train, y_train);
\* y_pred = clf.predict(X_test)
GnbCell ==
  /\ pc = "gnb"
  /\ LET fresh == NewEstimator("GaussianNB")
     IN  IF ~IsBound(X_train) \/ ~IsBound(y_train)
         THEN clf' = Some(fresh) /\ UNCHANGED y_pred /\ Ran("NameError", "results")
         ELSE LET f == Fit(fresh, Val(X_train), Val(y_train))
              IN  IF ~f.ok
                  THEN clf' = Some(f.est) /\ UNCHANGED y_pred
                       /\ Ran(f.exc, "results")
                  ELSE IF ~IsBound(X_test)
                  THEN clf' = Some(f.est) /\ UNCHANGED y_pred
                       /\ Ran("NameError", "results")
                  ELSE LET p == Predict(f.est, Val(X_test))
                       IN  /\ clf' = Some(Called(f.est, "predict"))
                           /\ IF p.ok
                              THEN y_pred' = p.val /\ Ran("none", "results")
                              ELSE UNCHANGED y_pred /\ Ran(p.exc, "results")
  /\ UNCHANGED << csvRows, rngCode, learnerRule, df, X, y, train_size, seed,
                  X_train, X_test, y_train, y_test, splitArgs, results,
                  accuracy, classifiers, clf_name, out30, out31, out32,
                  loopPos, lastRun >>

\* pd.DataFrame({'Predicted label': y_pred, 'True label': y_test}): the rows
\* carry the index of the Series y_test; the array y_pred is laid beside it by
\* position and must have its length.
ResultsFrame(ypred, ytest) ==
  IF Len(ypred) # Len(ytest) THEN Raise("ValueError")
  ELSE Return([p \in 1..Len(ytest) |->
                 [idx |-> ytest[p].idx, predicted |-> ypred[p],
                  true |-> ytest[p].label]])

\* In[29]: results = pd.DataFrame({...}); print(results)
ResultsCell ==
  /\ pc = "results"
  /\ IF ~IsBound(y_pred) \/ ~IsBound(y_test)
     THEN UNCHANGED results /\ Ran("NameError", "accuracy")
     ELSE LET r == ResultsFrame(Val(y_pred), Val(y_test))
          IN  IF r.ok THEN results' = r.val /\ Ran("none", "accuracy")
              ELSE UNCHANGED results /\ Ran(r.exc, "accuracy")
  /\ UNCHANGED << csvRows, rngCode, learnerRule, df, X, y, train_size, seed,
                  X_train, X_test, y_train, y_test, splitArgs, clf, y_pred,
                  accuracy, classifiers, clf_name, out30, out31, out32,
                  loopPos, lastRun >>

\* print(name + ': ' + str(accuracy))
Line(name, acc) == [name |-> name, acc |-> acc]

\* In[30]: accuracy = accuracy_score(y_test, y_pred);
\* print("Gaussian Naive Bayes: " + str(accuracy))
AccuracyCell ==
  /\ pc = "accuracy"
  /\ IF ~IsBound(y_test) \/ ~IsBound(y_pred)
     THEN UNCHANGED accuracy /\ out30' = None /\ Ran("NameError", "score")
     ELSE LET a == AccuracyScore(Val(y_test), Val(y_pred))
          IN  IF a.ok
              THEN /\ accuracy' = a.val
                   /\ out30' = Some(Line("Gaussian Naive Bayes", Val(a.val)))
                   /\ Ran("none", "score")
              ELSE UNCHANGED accuracy /\ out30' = None /\ Ran(a.exc, "score")
  /\ UNCHANGED << csvRows, rngCode, learnerRule, df, X, y, train_size, seed,
                  X_train, X_test, y_train, y_test, splitArgs, clf, y_pred,
                  results, classifiers, clf_name, out31, out32, loopPos,
                  lastRun >>

\* In[31]: accuracy = clf.score(X_test, y_test);
\* print("Gaussian Naive Bayes: " + str(accuracy))
ScoreCell ==
  /\ pc = "score"
  /\ IF ~IsBound(clf) \/ ~IsBound(X_test) \/ ~IsBound(y_test)
     THEN UNCHANGED << clf, accuracy >> /\ out31' = None
          /\ Ran("NameError", "compare")
     ELSE LET a == Score(Val(clf), Val(X_test), Val(y_test))
          IN  /\ clf' = Some(Called(Val(clf), "score"))
              /\ IF a.ok
                 THEN /\ accuracy' = a.val
                      /\ out31' = Some(Line("Gaussian Naive Bayes", Val(a.val)))
                      /\ Ran("none", "compare")
                 ELSE UNCHANGED accuracy /\ out31' = None /\ Ran(a.exc, "compare")
  /\ UNCHANGED << csvRows, rngCode, learnerRule, df, X, y, train_size, seed,
                  X_train, X_test, y_train, y_test, splitArgs, y_pred,
                  results, classifiers, clf_name, out30, out32, loopPos,
                  lastRun >>

----------------------------------------------------------------------------
(* In[32], the comparison of the classifiers *)

ClassifierNames ==
  << "Gaussian Naive Bayes", "Decision Tree Classifier",
     "Support Vector Machines" >>

\* Mutant of NewClassifiers: the items come in another order than inserted.
NewClassifiersUnordered ==
  << [name |-> "Decision Tree Classifier",
      est |-> NewEstimator("DecisionTreeClassifier")],
     [name |-> "Gaussian Naive Bayes", est |-> NewEstimator("GaussianNB")],
     [name |-> "Support Vector Machines", est |-> NewEstimator("SVC")] >>

\* classifiers = dict(); classifiers[name] = Estimator() three times: the
\* items in insertion order, as the dict of the notebook's interpreter keeps
\* them.
NewClassifiers ==
  << [name |-> "Gaussian Naive Bayes", est |-> NewEstimator("GaussianNB")],
     [name |-> "Decision Tree Classifier",
      est |-> NewEstimator("DecisionTreeClassifier")],
     [name |-> "Support Vector Machines", est |-> NewEstimator("SVC")] >>

\* Mutant of StoreEstimator: the fitted attributes are shared by all values.
StoreEstimatorShared(cls, k, est) ==
  [j \in 1..Len(cls) |->
     IF j = k THEN [cls[j] EXCEPT !.est = est]
     ELSE [cls[j] EXCEPT !.est.params = est.params]]

\* fit changes the object in place: the k-th value of the dict, and no other.
StoreEstimator(cls, k, est) == [cls EXCEPT ![k].est = est]

\* The statements before the loop; the saved output of the cell is cleared.
CompareCell ==
  /\ pc = "compare"
  /\ classifiers' = NewClassifiers
  /\ out32' = << >>
  /\ loopPos' = 1
  /\ Ran("none", "loop_fit")
  /\ UNCHANGED << csvRows, rngCode, learnerRule, df, X, y, train_size, seed,
                  X_train, X_test, y_train, y_test, splitArgs, clf, y_pred,
                  results, accuracy, clf_name, out30, out31, lastRun >>

\* for clf_name, clf in classifiers.items(): clf.fit(X_train, y_train)
LoopFit ==
  /\ pc = "loop_fit"
  /\ clf_name' = Some(classifiers[loopPos].name)
  /\ IF ~IsBound(X_train) \/ ~IsBound(y_train)
     THEN /\ clf' = Some(classifiers[loopPos].est)
          /\ UNCHANGED classifiers
          /\ raised' = "NameError" /\ pc' = "end"
     ELSE LET f == Fit(classifiers[loopPos].est, Val(X_train), Val(y_train))
          IN  /\ classifiers' = StoreEstimator(classifiers, loopPos, f.est)
              /\ clf' = Some(classifiers'[loopPos].est)
              /\ raised' = f.exc
              /\ pc' = IF f.ok THEN "loop_score" ELSE "end"
  /\ UNCHANGED << csvRows, rngCode, learnerRule, df, X, y, train_size, seed,
                  X_train, X_test, y_train, y_test, splitArgs, y_pred,
                  results, accuracy, out30, out31, out32, execution_count,
                  loopPos, lastRun >>

\* accuracy = clf.score(X_test, y_test); print(clf_name + ': ' + str(accuracy))
LoopScore ==
  /\ pc = "loop_score"
  /\ IF ~IsBound(X_test) \/ ~IsBound(y_test)
     THEN /\ UNCHANGED << classifiers, clf, accuracy, out32, loopPos >>
          /\ raised' = "NameError" /\ pc' = "end"
     ELSE LET a == Score(classifiers[loopPos].est, Val(X_test), Val(y_test))
          IN  /\ classifiers' = StoreEstimator(classifiers, loopPos,
                                   Called(classifiers[loopPos].est, "score"))
              /\ clf' = Some(classifiers'[loopPos].est)
              /\ raised' = a.exc
              /\ IF a.ok
                 THEN /\ accuracy' = a.val
                      /\ out32' = Append(out32, Line(Val(clf_name), Val(a.val)))
                      /\ loopPos' = loopPos + 1
                      /\ pc' = IF loopPos < Len(classifiers) THEN "loop_fit"
                               ELSE "end"
                 ELSE /\ UNCHANGED << accuracy, out32, loopPos >>
                      /\ pc' = "end"
  /\ UNCHANGED << csvRows, rngCode, learnerRule, df, X, y, train_size, seed,
                  X_train, X_test, y_train, y_test, splitArgs, y_pred,
                  results, clf_name, out30, out31, execution_count, lastRun >>

\* What a pass leaves behind: the call that made its split, the split, and
\* the lines of the comparison.
PassRecord ==
  [args |-> splitArgs,
   train |-> IF IsBound(X_train) THEN Some(Index(Val(X_train))) ELSE None,
   test |-> IF IsBound(X_test) THEN Some(Index(Val(X_test))) ELSE None,
   lines |-> out32]

\* The reader goes back to the split cell, edits train_size and seed or
\* not, and runs the cells from there again.
Rerun ==
  /\ pc = "end"
  /\ execution_count < MaxExecutions
  /\ lastRun' = Some(PassRecord)
  /\ pc' = "split"
  /\ UNCHANGED << csvRows, rngCode, learnerRule, df, X, y, train_size, seed,
                  X_train, X_test, y_train, y_test, splitArgs, clf, y_pred,
                  results, accuracy, classifiers, clf_name, out30, out31,
                  out32, raised, execution_count, loopPos >>

----------------------------------------------------------------------------
Init ==
  /\ csvRows \in DatasetSizes
  /\ rngCode \in ShuffleCodes
  /\ learnerRule \in [Algos -> Rules]
  /\ df = None /\ X = None /\ y = None
  /\ train_size = None /\ seed = None
  /\ X_train = None /\ X_test = None /\ y_train = None /\ y_test = None
  /\ splitArgs = None
  /\ clf = None /\ y_pred = None /\ results = None /\ accuracy = None
  /\ classifiers = << >> /\ clf_name = None
  /\ out30 = None /\ out31 = None /\ out32 = << >>
  /\ raised = "none"
  /\ execution_count = 0
  /\ pc = "read_csv"
  /\ loopPos = 1
  /\ lastRun = None

Next ==
  \/ ReadCsvCell
  \/ ExtractCell
  \/ SliceXCell
  \/ SliceYCell
  \/ \E t \in Fractions, s \in Seeds : SplitCell(t, s)
  \/ GnbCell
  \/ ResultsCell
  \/ AccuracyCell
  \/ ScoreCell
  \/ CompareCell
  \/ LoopFit
  \/ LoopScore
  \/ Rerun

Spec == Init /\ [][Next]_vars

----------------------------------------------------------------------------
(* The comparison with the classifiers evaluated independently: each
   name's fit and score in order, the names in any order and interleaved. *)

\* The statements before the loop, then the evaluations start.
ParStart ==
  /\ pc = "compare"
  /\ classifiers' = NewClassifiers
  /\ out32' = << >>
  /\ loopPos' = 1
  /\ IF IsBound(X_train) /\ IsBound(y_train) /\ IsBound(X_test) /\ IsBound(y_test)
     THEN Ran("none", "par")
     ELSE Ran("NameError", "end")
  /\ UNCHANGED << csvRows, rngCode, learnerRule, df, X, y, train_size, seed,
                  X_train, X_test, y_train, y_test, splitArgs, clf, y_pred,
                  results, accuracy, clf_name, out30, out31, lastRun >>

\* classifiers[name].fit(X_train, y_train) for the k-th name
ParFit(k) ==
  /\ pc = "par"
  /\ k \in 1..Len(classifiers)
  /\ classifiers[k].est.calls = << >>
  /\ LET f == Fit(classifiers[k].est, Val(X_train), Val(y_train))
     IN  /\ classifiers' = StoreEstimator(classifiers, k, f.est)
         /\ raised' = IF f.ok THEN raised ELSE f.exc
  /\ UNCHANGED << csvRows, rngCode, learnerRule, df, X, y, train_size, seed,
                  X_train, X_test, y_train, y_test, splitArgs, clf, y_pred,
                  results, accuracy, clf_name, out30, out31, out32,
                  execution_count, pc, loopPos, lastRun >>

\* classifiers[name].score(X_test, y_test) for the k-th name, and its line
ParScore(k) ==
  /\ pc = "par"
  /\ k \in 1..Len(classifiers)
  /\ classifiers[k].est.calls = << "fit" >>
  /\ IsFitted(classifiers[k].est)
  /\ LET a == Score(classifiers[k].est, Val(X_test), Val(y_test))
     IN  /\ classifiers' = StoreEstimator(classifiers, k,
                              Called(classifiers[k].est, "score"))
         /\ IF a.ok
            THEN /\ out32' = Append(out32, Line(classifiers[k].name, Val(a.val)))
                 /\ UNCHANGED raised
            ELSE /\ UNCHANGED out32
                 /\ raised' = a.exc
  /\ UNCHANGED << csvRows, rngCode, learnerRule, df, X, y, train_size, seed,
                  X_train, X_test, y_train, y_test, splitArgs, clf, y_pred,
                  results, accuracy, clf_name, out30, out31,
                  execution_count, pc, loopPos, lastRun >>

NextPar ==
  \/ ReadCsvCell
  \/ ExtractCell
  \/ SliceXCell
  \/ SliceYCell
  \/ \E t \in Fractions, s \in Seeds : SplitCell(t, s)
  \/ GnbCell
  \/ ResultsCell
  \/ AccuracyCell
  \/ ScoreCell
  \/ ParStart
  \/ \E k \in 1..Len(ClassifierNames) : ParFit(k)
  \/ \E k \in 1..Len(ClassifierNames) : ParScore(k)

SpecPar == Init /\ [][NextPar]_vars

----------------------------------------------------------------------------
(* The cells run in another order than top to bottom *)

Cells == {"split", "gnb", "results", "accuracy", "score", "compare"}

\* After the last cell the reader picks a cell after the extraction and runs
\* on from there.
Select(c) ==
  /\ pc = "end"
  /\ execution_count < MaxExecutions
  /\ pc' = c
  /\ UNCHANGED << csvRows, rngCode, learnerRule, df, X, y, train_size, seed,
                  X_train, X_test, y_train, y_test, splitArgs, clf, y_pred,
                  results, accuracy, classifiers, clf_name, out30, out31,
                  out32, raised, execution_count, loopPos, lastRun >>

NextAnyOrder ==
  \/ ReadCsvCell
  \/ ExtractCell
  \/ SliceXCell
  \/ SliceYCell
  \/ \E t \in Fractions, s \in Seeds : SplitCell(t, s)
  \/ GnbCell
  \/ ResultsCell
  \/ AccuracyCell
  \/ ScoreCell
  \/ CompareCell
  \/ LoopFit
  \/ LoopScore
  \/ \E c \in Cells : Select(c)

SpecAnyOrder == Init /\ [][NextAnyOrder]_vars

----------------------------------------------------------------------------
(* Properties *)

RowsOf(s) == {s[p] : p \in 1..Len(s)}

SplitBound ==
  IsBound(X_train) /\ IsBound(X_test) /\ IsBound(y_train) /\ IsBound(y_test)

\* A split is standing that a call with n rows, t tenths and seed s returned.
SplitMadeBy(n, t, s) == splitArgs = Some([rows |-> n, tenths |-> t, seed |-> s])

InLoop == pc \in {"loop_fit", "loop_score", "end", "par"}

\* C1: whenever train_test_split has returned, X_train and X_test share no
\* row, every row of X is in one of them and the sizes add up to that of X;
\* the same for y_train, y_test and y.
C1_SplitIsPartition ==
  SplitBound =>
    /\ Len(Val(X_train)) + Len(Val(X_test)) = Len(Val(X))
    /\ RowsOf(Val(X_train)) \cap RowsOf(Val(X_test)) = {}
    /\ RowsOf(Val(X_train)) \cup RowsOf(Val(X_test)) = RowsOf(Val(X))
    /\ Len(Val(y_train)) + Len(Val(y_test)) = Len(Val(y))
    /\ RowsOf(Val(y_train)) \cap RowsOf(Val(y_test)) = {}
    /\ RowsOf(Val(y_train)) \cup RowsOf(Val(y_test)) = RowsOf(Val(y))

\* C1 witness: a split of a 3-row file with rows on both sides.
C1_Witness ==
  /\ pc = "gnb" /\ raised = "none" /\ SplitBound
  /\ Len(Val(X)) = MaxRows
  /\ Len(Val(X_train)) >= 1 /\ Len(Val(X_test)) >= 1

C3_IrisSplitSizes ==
  SplitMadeBy(IrisRows, TrainSizeTenths, NotebookSeed) =>
    /\ Len(Val(X_train)) = 120
    /\ Len(Val(X_test)) = 30
    /\ Len(Val(y_train)) = 120
    /\ Len(Val(y_test)) = 30
    /\ Cardinality(RowsOf(Val(X_test))) = 30
    /\ RowsOf(Val(X_test)) \subseteq RowsOf(Val(X))

\* C3 witness: that split has just been made, and its test rows are the ones
\* the saved output lists.
C3_Witness ==
  /\ pc = "gnb" /\ raised = "none"
  /\ SplitMadeBy(IrisRows, TrainSizeTenths, NotebookSeed)
  /\ Index(Val(X_test)) = RecordedTestIndex

C5_InvalidSplitRejected ==
  (pc = "gnb" /\ IsBound(X) /\ IsBound(y) /\ IsBound(train_size)
     /\ (Val(train_size) <= 0 \/ Val(train_size) >= 10 \/ Len(Val(X)) < 2)) =>
    /\ raised = "ValueError"
    /\ ~SplitMadeBy(Len(Val(X)), Val(train_size), Val(seed))

\* C6 as stated: every split returned for N >= 2 and f in (0,1) has a row in
\* Training and a row in Test.
C6_BothSidesNonEmpty ==
  (SplitBound /\ IsBound(splitArgs) /\ Val(splitArgs).rows >= 2
     /\ Val(splitArgs).tenths > 0 /\ Val(splitArgs).tenths < 10) =>
    /\ Len(Val(X_train)) >= 1
    /\ Len(Val(X_test)) >= 1

\* The estimator objects the namespace reaches.
Estimators ==
  (IF IsBound(clf) THEN {Val(clf)} ELSE {}) \cup
  {classifiers[k].est : k \in 1..Len(classifiers)}

Count(s, m) == Cardinality({p \in 1..Len(s) : s[p] = m})

\* C7: on every estimator fit is called at most once and first; an
\* estimator that gave predictions or a score was fitted; and a score call
\* on an unfitted estimator raises NotFittedError and prints no accuracy.
C7_FitOnceBeforeScore ==
  /\ \A e \in Estimators :
       /\ Count(e.calls, "fit") <= 1
       /\ e.calls # << >> => e.calls[1] = "fit"
       /\ IsFitted(e) => Count(e.calls, "fit") = 1
  /\ (pc = "compare" /\ IsBound(clf) /\ ~IsFitted(Val(clf))
        /\ Count(Val(clf).calls, "score") = 1) =>
       raised = "NotFittedError" /\ out31 = None
  /\ (pc = "compare" /\ raised = "none") =>
       IsBound(clf) /\ IsFitted(Val(clf)) /\ IsBound(out31)
  /\ \A k \in 1..Len(out32) :
       InLoop => /\ IsFitted(classifiers[k].est)
                 /\ classifiers[k].est.calls = << "fit", "score" >>

\* C7 witness: clf.score was called on an estimator whose fit had raised.
C7_Witness ==
  /\ pc = "compare" /\ IsBound(clf) /\ ~IsFitted(Val(clf))
  /\ Val(clf).calls = << "fit", "score" >>
  /\ raised = "NotFittedError"

Hits(est) ==
  LET pred == Val(Predict(est, Val(X_test)).val)
  IN  Cardinality({i \in 0..(Len(Val(y_test)) - 1) :
                     pred[i + 1] = Val(y_test)[i + 1].label})

\* C9: every accuracy printed for a fitted classifier on a test set of M > 0
\* rows is hits / M, hits the number of positions where predicted and true
\* label are equal; so it lies in [0,1] and is a multiple of 1/M.
C9_AccuracyIsHitsOverM ==
  /\ \A k \in 1..Len(out32) :
       (pc \in {"loop_fit", "loop_score", "end"}) =>
         /\ out32[k].acc = << Hits(classifiers[k].est), Len(Val(y_test)) >>
         /\ out32[k].acc[1] \in 0..out32[k].acc[2]
         /\ out32[k].acc[2] > 0
  /\ (pc = "score" /\ raised = "none") =>
       /\ Val(out30).acc =
            << Cardinality({i \in 0..(Len(Val(y_test)) - 1) :
                              Val(y_pred)[i + 1] = Val(y_test)[i + 1].label}),
               Len(Val(y_test)) >>
       /\ Val(out30).acc[1] \in 0..Val(out30).acc[2]
       /\ Val(out30).acc[2] > 0
  /\ (pc = "compare" /\ raised = "none") =>
       /\ Val(out31).acc = << Hits(Val(clf)), Len(Val(y_test)) >>
       /\ Val(accuracy) = Val(out31).acc
       /\ Val(out31).acc[1] \in 0..Val(out31).acc[2]
       /\ Val(out31).acc[2] > 0

\* C9 witness: on the recorded Iris split the loop printed an accuracy that
\* is neither 0 nor 1.
C9_Witness ==
  /\ pc = "end" /\ raised = "none"
  /\ SplitMadeBy(IrisRows, TrainSizeTenths, NotebookSeed)
  /\ \E k \in 1..Len(out32) :
       out32[k].acc[1] > 0 /\ out32[k].acc[1] < out32[k].acc[2]

AlgoOf(name) ==
  IF name = "Gaussian Naive Bayes" THEN "GaussianNB"
  ELSE IF name = "Decision Tree Classifier" THEN "DecisionTreeClassifier"
  ELSE "SVC"

\* The accuracy the loop in insertion order prints for a name: that of a
\* fresh estimator fitted on the training rows and scored on the test rows.
SequentialAccuracy(name) ==
  Val(Score(Fit(NewEstimator(AlgoOf(name)), Val(X_train), Val(y_train)).est,
            Val(X_test), Val(y_test)).val)

C11_FailureLeavesNoPartialResult ==
  (pc = "end" /\ raised # "none" /\ classifiers # << >>) =>
    /\ raised \in {"ValueError", "NotFittedError", "NameError"}
    /\ Count(classifiers[loopPos].est.calls, "fit") <= 1
    /\ Count(classifiers[loopPos].est.calls, "score") <= 1
    /\ \A k \in (loopPos + 1)..Len(classifiers) :
         classifiers[k].est.calls = << >>
    /\ out32 = << >>

\* C12: every fitted estimator learned from the rows of X_train and y_train
\* and from no row of X_test, and every accuracy printed for it is taken
\* over the rows of X_test.
C12_NoTestRowInTraining ==
  /\ \A k \in 1..Len(classifiers) :
       (pc \in {"loop_fit", "loop_score", "end"}
          /\ IsFitted(classifiers[k].est)) =>
         /\ Val(classifiers[k].est.params).X = Val(X_train)
         /\ Val(classifiers[k].est.params).y = Val(y_train)
         /\ RowsOf(Val(classifiers[k].est.params).X)
              \cap RowsOf(Val(X_test)) = {}
         /\ Index(Val(classifiers[k].est.params).y)
              = Index(Val(classifiers[k].est.params).X)
  /\ (pc \in {"results", "accuracy", "score", "compare"} /\ IsBound(clf)
        /\ IsFitted(Val(clf))) =>
       /\ Val(Val(clf).params).X = Val(X_train)
       /\ Val(Val(clf).params).y = Val(y_train)
       /\ RowsOf(Val(Val(clf).params).X) \cap RowsOf(Val(X_test)) = {}
  /\ \A k \in 1..Len(out32) :
       (pc \in {"loop_fit", "loop_score", "end"}) =>
         out32[k].acc[2] = Len(Val(X_test))
  /\ (pc = "compare" /\ raised = "none") =>
       Val(out31).acc[2] = Len(Val(X_test))

\* C12 witness: the three classifiers were fitted and scored on the split of
\* the Iris file.
C12_Witness ==
  /\ pc = "end" /\ raised = "none" /\ Len(out32) = Len(ClassifierNames)
  /\ SplitMadeBy(IrisRows, TrainSizeTenths, NotebookSeed)
  /\ \A k \in 1..Len(classifiers) : IsFitted(classifiers[k].est)

\* C13: when In[30] has printed accuracy_score(y_test, y_pred), In[31]
\* prints the same value from clf.score(X_test, y_test), and the estimator
\* still has the attributes fit gave it after being queried twice.
C13_TwoWaysAgree ==
  /\ (pc = "compare" /\ IsBound(out30)) =>
       /\ raised = "none"
       /\ out31 = out30
       /\ Val(accuracy) = Val(out30).acc
       /\ Val(clf).calls = << "fit", "predict", "score" >>
       /\ Val(clf).params =
            Some(Learn("GaussianNB", Val(X_train), Val(y_train)))
  /\ (pc = "compare" /\ raised = "none") => IsBound(out30) /\ out31 = out30

\* C13 witness: both cells printed the same accuracy, neither 0 nor 1, on
\* the split of the Iris file.
C13_Witness ==
  /\ pc = "compare" /\ raised = "none" /\ IsBound(out30) /\ out31 = out30
  /\ SplitMadeBy(IrisRows, TrainSizeTenths, NotebookSeed)
  /\ Val(out31).acc[1] > 0 /\ Val(out31).acc[1] < Val(out31).acc[2]

\* C14 as stated: X and y hold every row of df, in order: |X| = |y| = |df|.
C14_ExtractionTakesEveryRow ==
  (IsBound(df) /\ IsBound(X) /\ IsBound(y)) =>
    /\ Len(Val(X)) = Len(Val(df))
    /\ Len(Val(y)) = Len(Val(df))
    /\ Index(Val(X)) = Index(Val(df))
    /\ Index(Val(y)) = Index(Val(df))

\* C15: at every position X_train and y_train hold the same row of the file,
\* with that row's measurements and label, and so do X_test and y_test; the
\* frame In[29] prints sets beside each test row's true label the label
\* predicted from that row's measurements.
C15_FeaturesAndLabelsAligned ==
  /\ SplitBound =>
       /\ Index(Val(X_train)) = Index(Val(y_train))
       /\ Index(Val(X_test)) = Index(Val(y_test))
       /\ \A p \in 1..Len(Val(X_train)) :
            /\ Val(X_train)[p] = Val(X)[Val(X_train)[p].idx + 1]
            /\ Val(y_train)[p] = Val(y)[Val(X_train)[p].idx + 1]
       /\ \A p \in 1..Len(Val(X_test)) :
            /\ Val(X_test)[p] = Val(X)[Val(X_test)[p].idx + 1]
            /\ Val(y_test)[p] = Val(y)[Val(X_test)[p].idx + 1]
  /\ (pc = "accuracy" /\ raised = "none") =>
       /\ Len(Val(results)) = Len(Val(X_test))
       /\ \A p \in 1..Len(Val(results)) :
            /\ Val(results)[p].idx = Val(X_test)[p].idx
            /\ Val(results)[p].true = Val(y)[Val(results)[p].idx + 1].label
            /\ Val(results)[p].predicted =
                 PredictOne(Val(Val(clf).params),
                            Val(X)[Val(results)[p].idx + 1])

\* C15 witness: the frame printed for the split of the Iris file lists the
\* rows of the saved output, some predicted right and some wrong.
C15_Witness ==
  /\ pc = "accuracy" /\ raised = "none"
  /\ Index(Val(results)) = RecordedTestIndex
  /\ \E p \in 1..Len(Val(results)) :
       Val(results)[p].predicted = Val(results)[p].true
  /\ \E p \in 1..Len(Val(results)) :
       Val(results)[p].predicted # Val(results)[p].true

\* C16 as stated: whatever cell is run after the comparison, a line In[31]
\* prints under the label Gaussian Naive Bayes is the score of a fitted
\* GaussianNB.
C16_LabelMatchesModel ==
  (pc = "compare" /\ raised = "none" /\ IsBound(out31)) =>
    /\ Val(out31).name = "Gaussian Naive Bayes"
    /\ IsFitted(Val(clf))
    /\ Val(clf).algo = "GaussianNB"


====
